---- MODULE Spec2Model ----
(***************************************************************************)
(* Hangawee Market Directory Proxy (src/server.js): the listing           *)
(* aggregation and query pipeline, the media GID -> URL resolver with its  *)
(* cache, and the category group index with its rebuild.                   *)
(*                                                                         *)
(* JavaScript strings are modelled as sequences of one-character strings,  *)
(* so that slug, startsWith, includes and the regular expressions of the   *)
(* source are computed character by character.  Property names (field      *)
(* keys, metaobject types) are only ever compared for equality and are     *)
(* kept as atomic strings.                                                 *)
(***************************************************************************)
EXTENDS Integers, Sequences, FiniteSets, TLC

(***************************************************************************)
(* String primitives                                                       *)
(***************************************************************************)
UpperSeq == <<"A","B","C","D","E","F","G","H","I","J","K","L","M",
              "N","O","P","Q","R","S","T","U","V","W","X","Y","Z">>

LowerSeq == <<"a","b","c","d","e","f","g","h","i","j","k","l","m",
              "n","o","p","q","r","s","t","u","v","w","x","y","z">>

Digits == {"0","1","2","3","4","5","6","7","8","9"}

LowerAlnum == {LowerSeq[i] : i \in 1..26} \cup Digits

\* String.prototype.toLowerCase, one character
LowerChar(c) ==
    IF \E i \in 1..26 : UpperSeq[i] = c
    THEN LowerSeq[CHOOSE i \in 1..26 : UpperSeq[i] = c]
    ELSE c

\* String.prototype.toLowerCase
ToLowerCase(s) == [i \in 1..Len(s) |-> LowerChar(s[i])]

IsSpace(c) == c \in {" ", "\t", "\n"}

RECURSIVE TrimStart(_)
TrimStart(s) ==
    IF s # <<>> /\ IsSpace(Head(s)) THEN TrimStart(Tail(s)) ELSE s

RECURSIVE TrimEnd(_)
TrimEnd(s) ==
    IF s # <<>> /\ IsSpace(s[Len(s)]) THEN TrimEnd(SubSeq(s, 1, Len(s) - 1)) ELSE s

\* String.prototype.trim
Trim(s) == TrimEnd(TrimStart(s))

\* String.prototype.startsWith
StartsWith(s, p) == Len(p) <= Len(s) /\ SubSeq(s, 1, Len(p)) = p

\* String.prototype.includes
Includes(s, p) ==
    \E i \in 0..(Len(s) - Len(p)) : SubSeq(s, i + 1, i + Len(p)) = p

\* s.replace(/c/g, "-") for a single character c
ReplaceChar(s, c) == [i \in 1..Len(s) |-> IF s[i] = c THEN "-" ELSE s[i]]

\* s.replace(/[^a-z0-9]+/g, "-"): every maximal run of characters outside
\* [a-z0-9] becomes one "-"
RECURSIVE ReplaceNonAlnumRuns(_)
ReplaceNonAlnumRuns(s) ==
    IF s = <<>> THEN <<>>
    ELSE IF Head(s) \in LowerAlnum THEN <<Head(s)>> \o ReplaceNonAlnumRuns(Tail(s))
    ELSE IF Len(s) >= 2 /\ s[2] \notin LowerAlnum THEN ReplaceNonAlnumRuns(Tail(s))
    ELSE <<"-">> \o ReplaceNonAlnumRuns(Tail(s))

\* s.replace(/-+/g, "-")
RECURSIVE CollapseDashes(_)
CollapseDashes(s) ==
    IF s = <<>> THEN <<>>
    ELSE IF Head(s) = "-" /\ Len(s) >= 2 /\ s[2] = "-" THEN CollapseDashes(Tail(s))
    ELSE <<Head(s)>> \o CollapseDashes(Tail(s))

RECURSIVE StripLeadingDashes(_)
StripLeadingDashes(s) ==
    IF s # <<>> /\ Head(s) = "-" THEN StripLeadingDashes(Tail(s)) ELSE s

RECURSIVE StripTrailingDashes(_)
StripTrailingDashes(s) ==
    IF s # <<>> /\ s[Len(s)] = "-"
    THEN StripTrailingDashes(SubSeq(s, 1, Len(s) - 1))
    ELSE s

\* a strip of the leading dashes only
StripDashesLeading(s) == StripLeadingDashes(s)

\* s.replace(/^-+|-+$/g, "")
StripDashes(s) == StripTrailingDashes(StripLeadingDashes(s))

\* slug(s)
slug(s) ==
    StripDashes(
      CollapseDashes(
        ReplaceNonAlnumRuns(
          ReplaceChar(ReplaceChar(ToLowerCase(Trim(s)), "&"), "/"))))

\* /^https?:\/\//.test(s)
IsHttpUrl(s) ==
    \/ StartsWith(s, <<"h","t","t","p",":","/","/">>)
    \/ StartsWith(s, <<"h","t","t","p","s",":","/","/">>)

\* the literal "gid://shopify/MediaImage"
GidPrefix == <<"g","i","d",":","/","/","s","h","o","p","i","f","y","/",
               "M","e","d","i","a","I","m","a","g","e">>

\* the literal "Others"
OthersLabel == <<"O","t","h","e","r","s">>

\* String(o) of a plain object: "[object Object]"
ObjectObject == <<"[","o","b","j","e","c","t"," ","O","b","j","e","c","t","]">>

(***************************************************************************)
(* JavaScript values met by the flattening code: a string, a plain object  *)
(* (an insertion-ordered list of key/value entries) or undefined.  Every   *)
(* value is a record with the same three fields.                           *)
(***************************************************************************)
Str(s) == [t |-> "str", s |-> s, o |-> <<>>]

Obj(o) == [t |-> "obj", s |-> <<>>, o |-> o]

Undefined == [t |-> "undef", s |-> <<>>, o |-> <<>>]

EmptyStr == Str(<<>>)

\* JavaScript truthiness: "" and undefined are falsy, an object is truthy
Truthy(v) == v.t = "obj" \/ (v.t = "str" /\ v.s # <<>>)

\* a || b
OrElse(a, b) == IF Truthy(a) THEN a ELSE b

\* String(v) / v.toString(), and the element conversion of Array.prototype.join
JsString(v) == IF v.t = "obj" THEN ObjectObject ELSE v.s

\* obj[key]
Get(o, key) ==
    IF \E i \in 1..Len(o) : o[i].key = key
    THEN o[CHOOSE i \in 1..Len(o) : o[i].key = key].val
    ELSE Undefined

\* obj[key] = val: an existing key keeps its place, a new key goes last
Put(o, key, val) ==
    IF \E i \in 1..Len(o) : o[i].key = key
    THEN [i \in 1..Len(o) |-> IF o[i].key = key THEN [key |-> key, val |-> val] ELSE o[i]]
    ELSE Append(o, [key |-> key, val |-> val])

(***************************************************************************)
(* Upstream field shapes.  A field is [key, value, reference]; an absent   *)
(* or null value is the empty string (both are falsy where the code tests  *)
(* them).  A reference is [present, url, type, handle, fields]: url is     *)
(* reference.image.url of a MediaImage, type/handle/fields those of a      *)
(* Metaobject, each empty when the upstream sends none.                    *)
(***************************************************************************)
NoRef == [present |-> FALSE, url |-> <<>>, type |-> "", handle |-> <<>>, fields |-> <<>>]

MediaRef(url) == [present |-> TRUE, url |-> url, type |-> "", handle |-> <<>>, fields |-> <<>>]

MetaRef(type, handle, fields) ==
    [present |-> TRUE, url |-> <<>>, type |-> type, handle |-> handle, fields |-> fields]

Field(key, value, reference) == [key |-> key, value |-> value, reference |-> reference]

RECURSIVE extractFieldValue(_)
RECURSIVE ExtractInner(_, _)

\* for (const f2 of ff.reference.fields) inner[f2.key] = extractFieldValue(f2)
ExtractInner(fields, inner) ==
    IF fields = <<>> THEN inner
    ELSE ExtractInner(Tail(fields),
                      Put(inner, Head(fields).key, extractFieldValue(Head(fields))))

extractFieldValue(ff) ==
    IF ff.value # <<>> THEN Str(ff.value)
    ELSE IF ff.reference.present
    THEN IF ff.reference.url # <<>> THEN Str(ff.reference.url)
         ELSE IF ff.reference.type = "metaobject" /\ ff.reference.fields # <<>>
         THEN Obj(ExtractInner(ff.reference.fields, <<>>))
         ELSE IF ff.reference.handle # <<>> THEN Str(ff.reference.handle)
         ELSE EmptyStr
    ELSE EmptyStr

\* for (const ff of (n.fields || [])) f[ff.key] = extractFieldValue(ff)
RECURSIVE FlattenFields(_, _)
FlattenFields(fields, f) ==
    IF fields = <<>> THEN f
    ELSE FlattenFields(Tail(fields),
                       Put(f, Head(fields).key, extractFieldValue(Head(fields))))

\* if (typeof f.description === "object" && f.description.text)
\*     f.description = f.description.text
UnwrapDescription(f) ==
    IF Get(f, "description").t = "obj" /\ Truthy(Get(Get(f, "description").o, "text"))
    THEN Put(f, "description", Get(Get(f, "description").o, "text"))
    ELSE f

\* the field bag f of one upstream node, up to the image handling
FieldBag(n) == UnwrapDescription(FlattenFields(n.fields, <<>>))

\* f.image && !/^https?:\/\//.test(f.image)
NeedsResolve(f) == Truthy(Get(f, "image")) /\ ~IsHttpUrl(JsString(Get(f, "image")))

FeaturedFlags ==
    { <<"t","r","u","e">>, <<"1">>, <<"y","e","s">>, <<"y">>,
      <<"f","e","a","t","u","r","e","d">> }

\* ["true","1","yes","y","featured"].includes(String(f.featured || "").toLowerCase())
IsFeatured(f) ==
    ToLowerCase(JsString(OrElse(Get(f, "featured"), EmptyStr))) \in FeaturedFlags

\* listings.push({...}) with f.image already resolved to image.  The pure
\* pass-through fields phone, email, google_map, description_rich and hours_*
\* (f.x || "") are read by nothing in the pipeline and are left out.
MakeListing(n, f, image) ==
    [ id          |-> n.id,
      handle      |-> n.handle,
      name        |-> OrElse(Get(f, "name"), Str(n.handle)),
      category    |-> JsString(OrElse(Get(f, "category_handle"),
                                      OrElse(Get(f, "category"), EmptyStr))),
      featured    |-> IsFeatured(f),
      image       |-> OrElse(image, EmptyStr),
      address     |-> OrElse(Get(f, "address"), EmptyStr),
      description |-> OrElse(Get(f, "description"), EmptyStr),
      website     |-> OrElse(Get(f, "website"), EmptyStr),
      insta       |-> OrElse(Get(f, "insta"), EmptyStr),
      facebook    |-> OrElse(Get(f, "facebook"), EmptyStr),
      tiktok      |-> OrElse(Get(f, "tiktok"), EmptyStr),
      youtube     |-> OrElse(Get(f, "youtube"),
                             OrElse(Get(f, "youtube_url"),
                                    OrElse(Get(f, "youtube_handle"), EmptyStr))) ]

(***************************************************************************)
(* The category group index: a plain object from group label to an array   *)
(* of {name, handle}.  It is kept as the list of its entries in insertion  *)
(* order; ObjectKeys gives the order in which Object.keys, and so          *)
(* Array.prototype.find over it, visits them.  Labels that name a property *)
(* of Object.prototype ("constructor", "__proto__", ...) are outside the   *)
(* model's label alphabet.                                                 *)
(***************************************************************************)
HasKey(groups, k) == \E i \in 1..Len(groups) : groups[i].key = k

\* groups[k] for a key the object holds
Members(groups, k) == groups[CHOOSE i \in 1..Len(groups) : groups[i].key = k].val

\* a canonical array index ("0", "7", "12"): such keys are visited first, in
\* ascending numeric order, before every other key
IsArrayIndex(k) ==
    /\ k # <<>>
    /\ \A i \in 1..Len(k) : k[i] \in Digits
    /\ (Len(k) > 1 => k[1] # "0")

DigitSeq == <<"0","1","2","3","4","5","6","7","8","9">>

DigitVal(c) == (CHOOSE i \in 1..10 : DigitSeq[i] = c) - 1

RECURSIVE NatOf(_)
NatOf(k) == IF k = <<>> THEN 0 ELSE 10 * NatOf(SubSeq(k, 1, Len(k) - 1)) + DigitVal(k[Len(k)])

RECURSIVE AscendingIndexKeys(_)
AscendingIndexKeys(ks) ==
    IF ks = {} THEN <<>>
    ELSE LET m == CHOOSE k \in ks : \A j \in ks : NatOf(k) <= NatOf(j)
         IN  <<m>> \o AscendingIndexKeys(ks \ {m})

RECURSIVE InsertionOrderKeys(_)
InsertionOrderKeys(groups) ==
    IF groups = <<>> THEN <<>>
    ELSE (IF IsArrayIndex(Head(groups).key) THEN <<>> ELSE <<Head(groups).key>>)
         \o InsertionOrderKeys(Tail(groups))

\* Object.keys(groups)
ObjectKeys(groups) ==
    AscendingIndexKeys({groups[i].key : i \in {j \in 1..Len(groups) : IsArrayIndex(groups[j].key)}})
    \o InsertionOrderKeys(groups)

\* a taxonomy record's field bag: for (const x of n.fields) f[x.key] = x.value
RECURSIVE CategoryFields(_, _)
CategoryFields(fields, f) ==
    IF fields = <<>> THEN f
    ELSE CategoryFields(Tail(fields), Put(f, Head(fields).key, Str(Head(fields).value)))

\* (f.group || f.category_group || "Others").trim()
GroupOf(f) ==
    Trim(OrElse(Get(f, "group"), OrElse(Get(f, "category_group"), Str(OthersLabel))).s)

\* if (!groups[group]) groups[group] = []; groups[group].push({ name, handle })
PushMember(groups, group, m) ==
    IF HasKey(groups, group)
    THEN [i \in 1..Len(groups) |->
            IF groups[i].key = group
            THEN [key |-> group, val |-> Append(groups[i].val, m)]
            ELSE groups[i]]
    ELSE Append(groups, [key |-> group, val |-> <<m>>])

\* the loop of buildCategoryGroups over data.metaobjects.nodes
RECURSIVE BuildLoop(_, _)
BuildLoop(nodes, groups) ==
    IF nodes = <<>> THEN groups
    ELSE LET n == Head(nodes)
             f == CategoryFields(n.fields, <<>>)
         IN  BuildLoop(Tail(nodes),
                       PushMember(groups, GroupOf(f),
                                  [name   |-> OrElse(Get(f, "name"), Str(n.handle)).s,
                                   handle |-> n.handle]))

\* a build that leaves the last record out
BuildGroupsPartial(nodes) == BuildLoop(SubSeq(nodes, 1, Len(nodes) - 1), <<>>)

\* const groups = {}; for (...) {...}
BuildGroups(nodes) == BuildLoop(nodes, <<>>)

\* Object.keys(categoryGroups || {}).length
GroupCount(groups) == Len(ObjectKeys(groups))

(***************************************************************************)
(* Query pipeline of /proxy/directory: group resolution, filters, sort,    *)
(* pagination.                                                             *)
(***************************************************************************)
\* s === gslug || s.startsWith(gslug) || gslug.startsWith(s), with s = slug(k)
KeyMatches(k, gslug) ==
    \/ slug(k) = gslug
    \/ StartsWith(slug(k), gslug)
    \/ StartsWith(gslug, slug(k))

\* Object.keys(categoryGroups).find(k => ...): the position in keys of the
\* first matching key, 0 when there is none
RECURSIVE FindFrom(_, _, _)
FindFrom(keys, i, gslug) ==
    IF i > Len(keys) THEN 0
    ELSE IF KeyMatches(keys[i], gslug) THEN i
    ELSE FindFrom(keys, i + 1, gslug)

FindKeyIndex(groups, gslug) == FindFrom(ObjectKeys(groups), 1, gslug)

\* (categoryGroups[key] || []).map(c => slug(c.handle || ""))
HandlesOf(groups, key) ==
    LET ms == Members(groups, key) IN [i \in 1..Len(ms) |-> slug(ms[i].handle)]

\* let handlesInGroup = null; if (gParam) {...}: [set, key, handles], set being
\* FALSE while handlesInGroup is null
ResolveGroup(groups, gParam) ==
    LET i == IF gParam = <<>> THEN 0 ELSE FindKeyIndex(groups, slug(gParam))
        key == IF i = 0 THEN <<>> ELSE ObjectKeys(groups)[i]
    IN  IF i # 0 /\ key # <<>>
        THEN [set |-> TRUE, key |-> key, handles |-> HandlesOf(groups, key)]
        ELSE [set |-> FALSE, key |-> <<>>, handles |-> <<>>]

SeqContains(seq, x) == \E i \in 1..Len(seq) : seq[i] = x

\* x.category && handlesInGroup.includes(slug(x.category))
InGroup(x, handles) == x.category # <<>> /\ SeqContains(handles, slug(x.category))

\* slug(x.category) === slug(catHdl)
InCategory(x, catHdl) == slug(x.category) = slug(catHdl)

RECURSIVE JoinSpace(_)
JoinSpace(parts) ==
    IF parts = <<>> THEN <<>>
    ELSE IF Len(parts) = 1 THEN parts[1]
    ELSE parts[1] \o <<" ">> \o JoinSpace(Tail(parts))

\* [x.name, x.address, x.website, x.insta, x.facebook, x.youtube, x.tiktok]
\*    .join(" ").toLowerCase().includes(q)
MatchesText(x, q) ==
    Includes(ToLowerCase(JoinSpace(<< JsString(x.name), JsString(x.address),
                                      JsString(x.website), JsString(x.insta),
                                      JsString(x.facebook), JsString(x.youtube),
                                      JsString(x.tiktok) >>)), q)

\* a group filter that keeps everything
GroupFilterSkipped(listings, hig) == listings

\* the three filters, in the order of the source (SelectSeq is
\* Array.prototype.filter)
GroupFilter(listings, hig) ==
    IF hig.set /\ hig.handles # <<>>
    THEN LET Keep(x) == InGroup(x, hig.handles) IN SelectSeq(listings, Keep)
    ELSE listings

CategoryFilter(listings, catHdl) ==
    IF catHdl # <<>>
    THEN LET Keep(x) == InCategory(x, catHdl) IN SelectSeq(listings, Keep)
    ELSE listings

TextFilter(listings, q) ==
    IF q # <<>>
    THEN LET Keep(x) == MatchesText(x, q) IN SelectSeq(listings, Keep)
    ELSE listings

\* String.prototype.localeCompare on letters and digits: digits before
\* letters, letters by alphabet regardless of case, and, for strings equal up
\* to case, lower case before upper case at the first difference
IsUpper(c) == \E i \in 1..26 : UpperSeq[i] = c

CharRank(c) ==
    IF c \in Digits THEN DigitVal(c) + 1
    ELSE IF \E i \in 1..26 : LowerSeq[i] = LowerChar(c)
    THEN 10 + (CHOOSE i \in 1..26 : LowerSeq[i] = LowerChar(c))
    ELSE 0

RECURSIVE ComparePrimary(_, _)
ComparePrimary(s, t) ==
    IF s = <<>> THEN (IF t = <<>> THEN 0 ELSE -1)
    ELSE IF t = <<>> THEN 1
    ELSE IF CharRank(Head(s)) < CharRank(Head(t)) THEN -1
    ELSE IF CharRank(Head(s)) > CharRank(Head(t)) THEN 1
    ELSE ComparePrimary(Tail(s), Tail(t))

RECURSIVE CompareCase(_, _)
CompareCase(s, t) ==
    IF s = <<>> \/ t = <<>> THEN 0
    ELSE IF ~IsUpper(Head(s)) /\ IsUpper(Head(t)) THEN -1
    ELSE IF IsUpper(Head(s)) /\ ~IsUpper(Head(t)) THEN 1
    ELSE CompareCase(Tail(s), Tail(t))

LocaleCompare(s, t) ==
    IF ComparePrimary(s, t) # 0 THEN ComparePrimary(s, t) ELSE CompareCase(s, t)

\* a comparator that looks at the name only
CompareListingsByName(a, b) ==
    LocaleCompare(JsString(OrElse(a.name, EmptyStr)), JsString(OrElse(b.name, EmptyStr)))

\* the comparator given to filtered.sort
CompareListings(a, b) ==
    IF a.featured /\ ~b.featured THEN -1
    ELSE IF ~a.featured /\ b.featured THEN 1
    ELSE LocaleCompare(JsString(OrElse(a.name, EmptyStr)), JsString(OrElse(b.name, EmptyStr)))

\* Array.prototype.sort is stable: an element goes after every element that
\* does not compare greater than it
RECURSIVE InsertSorted(_, _)
InsertSorted(sorted, x) ==
    IF sorted = <<>> THEN <<x>>
    ELSE IF CompareListings(Head(sorted), x) > 0 THEN <<x>> \o sorted
    ELSE <<Head(sorted)>> \o InsertSorted(Tail(sorted), x)

RECURSIVE SortFrom(_, _)
SortFrom(rest, sorted) ==
    IF rest = <<>> THEN sorted
    ELSE SortFrom(Tail(rest), InsertSorted(sorted, Head(rest)))

SortListings(filtered) == SortFrom(filtered, <<>>)

\* parseInt(s, 10) of a decimal numeral
ParseInt(s) == NatOf(s)

DefaultPage == 1

DefaultPerPage == 12

NumeralOf(n) ==
    IF n < 10 THEN <<DigitSeq[n + 1]>>
    ELSE <<DigitSeq[(n \div 10) + 1], DigitSeq[(n % 10) + 1]>>

\* parseInt(req.query.page || "1", 10)
PageOf(query) ==
    ParseInt(IF query.page = <<>> THEN NumeralOf(DefaultPage) ELSE query.page)

\* parseInt(req.query.perPage || "12", 10)
PerPageOf(query) ==
    ParseInt(IF query.perPage = <<>> THEN NumeralOf(DefaultPerPage) ELSE query.perPage)

\* Math.ceil(total / perPage) for perPage > 0
CeilDiv(total, perPage) == (total + perPage - 1) \div perPage

Max(a, b) == IF a >= b THEN a ELSE b

Min(a, b) == IF a <= b THEN a ELSE b

\* Math.max(1, Math.ceil(total / perPage))
TotalPages(total, perPage) == Max(1, CeilDiv(total, perPage))

\* a slice that starts one page late: page * perPage
SliceStartLate(page, perPage) == page * perPage

\* (page - 1) * perPage
SliceStart(page, perPage) == (page - 1) * perPage

\* Array.prototype.slice(start, end) for 0 <= start <= end
Slice(seq, start, end) == SubSeq(seq, start + 1, Min(end, Len(seq)))

\* res.json({ total, totalPages, page, perPage, items })
PageResponse(filtered, page, perPage) ==
    [ status     |-> 200,
      total      |-> Len(filtered),
      totalPages |-> TotalPages(Len(filtered), perPage),
      page       |-> page,
      perPage    |-> perPage,
      items      |-> Slice(filtered, SliceStart(page, perPage),
                           SliceStart(page, perPage) + perPage) ]

\* res.status(500).json({ error }): the body carries no listing fields
ErrorResponse ==
    [status |-> 500, total |-> 0, totalPages |-> 0, page |-> 0, perPage |-> 0, items |-> <<>>]

\* no response sent yet
NoResponse ==
    [status |-> 0, total |-> 0, totalPages |-> 0, page |-> 0, perPage |-> 0, items |-> <<>>]

\* the synchronous tail of the /proxy/directory handler, from the group
\* filter to res.json: the locals handlesInGroup and filtered, and the response
Pipeline(listings, groups, query) ==
    LET hig      == ResolveGroup(groups, Trim(query.g))
        filtered == SortListings(
                      TextFilter(
                        CategoryFilter(GroupFilter(listings, hig), Trim(query.category)),
                        ToLowerCase(Trim(query.q))))
    IN  [ hig |-> hig, filtered |-> filtered,
          res |-> PageResponse(filtered, PageOf(query), PerPageOf(query)) ]

(***************************************************************************)
(* resolveMediaUrl up to its first await, and the flattening loop of the   *)
(* handler up to its next await.                                           *)
(***************************************************************************)
\* mediaCache[k]; "" stands for an absent entry (both are falsy)
CacheGet(cache, k) == IF k \in DOMAIN cache THEN cache[k] ELSE <<>>

\* a store that keeps no other entry
CachePutAlone(cache, k, url) == [x \in {k} |-> url]

\* mediaCache[k] = url
CachePut(cache, k, url) ==
    [x \in DOMAIN cache \cup {k} |-> IF x = k THEN url ELSE cache[x]]

\* a resolver that never consults mediaCache
ResolveCallNoCache(v, cache) ==
    IF ~Truthy(v) THEN [k |-> "ret", v |-> EmptyStr]
    ELSE IF IsHttpUrl(JsString(v)) THEN [k |-> "ret", v |-> v]
    ELSE IF v.t = "obj" THEN [k |-> "throw", v |-> v]
    ELSE IF ~StartsWith(v.s, GidPrefix) THEN [k |-> "ret", v |-> v]
    ELSE [k |-> "gql", v |-> v]

\* resolveMediaUrl(v) up to the call of gql: it returns a value ("ret"),
\* throws ("throw": startsWith is no method of an object) or issues the
\* upstream lookup ("gql")
ResolveCall(v, cache) ==
    IF ~Truthy(v) THEN [k |-> "ret", v |-> EmptyStr]
    ELSE IF IsHttpUrl(JsString(v)) THEN [k |-> "ret", v |-> v]
    ELSE IF v.t = "obj" THEN [k |-> "throw", v |-> v]
    ELSE IF ~StartsWith(v.s, GidPrefix) THEN [k |-> "ret", v |-> v]
    ELSE IF CacheGet(cache, v.s) # <<>> THEN [k |-> "ret", v |-> Str(CacheGet(cache, v.s))]
    ELSE [k |-> "gql", v |-> v]

(***************************************************************************)
(* The upstream store's data: the records the listing query and the        *)
(* taxonomy query can return, the media references and the URLs a media    *)
(* lookup can answer.                                                      *)
(***************************************************************************)
\* "gid://shopify/MediaImage/1"
GidA == GidPrefix \o <<"/","1">>

\* "gid://shopify/MediaImage/2", a reference resolved in an earlier run
GidB == GidPrefix \o <<"/","2">>

\* "https://c/1" and "https://c/2"
Url1 == <<"h","t","t","p","s",":","/","/","c","/","1">>

Url2 == <<"h","t","t","p","s",":","/","/","c","/","2">>

\* what node.image.url of a media lookup can be; "" is a node without image
LookupUrls == {<<>>, Url1, Url2}

\* directory_listing records.  1: featured, category by reference to the
\* category "x", image given as a media GID.  2: category "Y" as a scalar,
\* image already an absolute URL.  3: category_handle "x", no image, no name.
\* 4: the same media GID as 1, category "z" by reference.
ListingCatalogue ==
    << [ id |-> 1, handle |-> <<"p">>,
         fields |-> << Field("name", <<"b">>, NoRef),
                       Field("featured", <<"T","r","u","e">>, NoRef),
                       Field("category", <<>>, MetaRef("category", <<"x">>, <<>>)),
                       Field("image", GidA, MediaRef(<<>>)),
                       Field("address", <<"k">>, NoRef) >> ],
       [ id |-> 2, handle |-> <<"q">>,
         fields |-> << Field("name", <<"A">>, NoRef),
                       Field("category", <<"Y">>, NoRef),
                       Field("image", <<>>, MediaRef(Url2)) >> ],
       [ id |-> 3, handle |-> <<"a">>,
         fields |-> << Field("category_handle", <<"x">>, NoRef),
                       Field("category", <<"y">>, NoRef),
                       Field("featured", <<"n","o">>, NoRef) >> ],
       [ id |-> 4, handle |-> <<"r">>,
         fields |-> << Field("name", <<"a">>, NoRef),
                       Field("category", <<>>, MetaRef("category", <<"z">>, <<>>)),
                       Field("image", GidA, NoRef) >> ] >>

ListingIds == 1..Len(ListingCatalogue)

\* category records.  1: group "a & b".  2: group "a".  3: no group field, the
\* category_group " c ".  4: neither, so "Others".  5: group "a & b" again.
\* 6: a group field that holds a blank only.
CategoryCatalogue ==
    << [ handle |-> <<"x">>,
         fields |-> << [key |-> "group", value |-> <<"a"," ","&"," ","b">>],
                       [key |-> "name", value |-> <<"X">>] >> ],
       [ handle |-> <<"y">>,
         fields |-> << [key |-> "group", value |-> <<"a">>] >> ],
       [ handle |-> <<"Z">>,
         fields |-> << [key |-> "category_group", value |-> <<" ","c"," ">>],
                       [key |-> "group", value |-> <<>>] >> ],
       [ handle |-> <<"w">>, fields |-> <<>> ],
       [ handle |-> <<"y">>,
         fields |-> << [key |-> "group", value |-> <<"a"," ","&"," ","b">>],
                       [key |-> "name", value |-> <<"Y">>] >> ],
       [ handle |-> <<"v">>,
         fields |-> << [key |-> "group", value |-> <<" ">>] >> ] >>

CategoryIds == 1..Len(CategoryCatalogue)

\* data.metaobjects.nodes of a response, from the record numbers it carries
ListingNodes(ids) == [i \in 1..Len(ids) |-> ListingCatalogue[ids[i]]]

CategoryNodes(ids) == [i \in 1..Len(ids) |-> CategoryCatalogue[ids[i]]]

\* all sequences over S of length at most n
RECURSIVE SeqsUpTo(_, _)
SeqsUpTo(S, n) ==
    IF n = 0 THEN {<<>>}
    ELSE SeqsUpTo(S, n - 1) \cup {Append(q, x) : q \in SeqsUpTo(S, n - 1), x \in S}

(***************************************************************************)
(* State                                                                   *)
(***************************************************************************)
VARIABLES
    mediaCache,      \* let mediaCache: GID -> URL
    categoryGroups,  \* let categoryGroups: the group index
    mediaFile,       \* cache/mediaGidCache.json
    groupsFile,      \* cache/categoryGroups.json
    req,             \* the /proxy/directory handlers in progress, one per client
    refresh,         \* the /proxy/refresh-groups handler and its invalidation task
    startup,         \* the buildCategoryGroups call of the app.listen callback
    crashed,         \* the process died of an unhandled rejection
    observed,        \* the body of the last /proxy/category-groups or /proxy/health answer
    lastData,        \* data.metaobjects.nodes of the build that assigned categoryGroups last
    fcall            \* a call of slug or extractFieldValue on its own: argument and results

vars == <<mediaCache, categoryGroups, mediaFile, groupsFile, req, refresh, startup,
          crashed, observed, lastData, fcall>>

\* the bounds of the model
NumClients == 2

MaxNodes == 2

MaxCategoryNodes == 2

MaxMore == 1

\* records of a listing answer whose sorting is examined
MaxSorted == 3

\* length of the strings slug is applied to
MaxSlugLen == 3

\* fields of a referenced record given to extractFieldValue
MaxInnerFields == 2

Clients == 1..NumClients

\* guard++ > 20
GuardLimit == 20

EmptyCache == [k \in {} |-> <<>>]

MissingDoc(empty) == [st |-> "missing", v |-> empty]

CorruptDoc(empty) == [st |-> "corrupt", v |-> empty]

OkDoc(v) == [st |-> "ok", v |-> v]

\* the try block at module load: a document is read when it exists, and the
\* first JSON.parse that throws ends the block, leaving what was not yet
\* assigned at its initial {}
LoadMediaCache(mediaDoc) == IF mediaDoc.st = "ok" THEN mediaDoc.v ELSE EmptyCache

LoadCategoryGroups(mediaDoc, groupsDoc) ==
    IF mediaDoc.st # "corrupt" /\ groupsDoc.st = "ok" THEN groupsDoc.v ELSE <<>>

\* req.query of a request without parameters
DefaultQuery == [page |-> <<>>, perPage |-> <<>>, g |-> <<>>, category |-> <<>>, q |-> <<>>]

NoGroup == [set |-> FALSE, key |-> <<>>, handles |-> <<>>]

NoReturn == [k |-> "none", v |-> EmptyStr]

\* a handler slot no request has reached yet
IdleRequest ==
    [ pc       |-> "idle",
      query    |-> DefaultQuery,
      guard    |-> 0,         \* let guard
      fetches  |-> 0,         \* listing page queries issued so far
      more     |-> FALSE,     \* pi.hasNextPage of the last page received
      nodes    |-> <<>>,      \* const nodes (record numbers)
      i        |-> 0,         \* position of the for loop over nodes
      listings |-> <<>>,      \* const listings
      arg      |-> EmptyStr,  \* the argument of the resolveMediaUrl call in progress
      ret      |-> NoReturn,  \* how that call ended
      lookups  |-> 0,         \* media lookups issued so far
      failed   |-> {},        \* positions whose lookup threw or gave no URL
      hig      |-> NoGroup,   \* let handlesInGroup
      filtered |-> <<>>,      \* let filtered, as sorted
      res      |-> NoResponse ]

\* logged is the group count buildCategoryGroups logs, status and groups the
\* response, inval the state of the invalidation task
IdleRefresh ==
    [ pc |-> "idle", threw |-> FALSE, logged |-> 0, status |-> 0, groups |-> 0,
      inval |-> "none" ]

\* no build has assigned categoryGroups yet: it holds what was loaded
NoData == <<0>>

NothingObserved == [op |-> "none", groups |-> <<>>, n |-> 0]

\* the documents the process can find on disk when it starts
InitMediaDocs ==
    { MissingDoc(EmptyCache), CorruptDoc(EmptyCache), OkDoc(CachePut(EmptyCache, GidA, Url1)),
      OkDoc(CachePut(EmptyCache, GidB, Url2)) }

InitGroupDocs ==
    { MissingDoc(<<>>), CorruptDoc(<<>>), OkDoc(BuildGroups(CategoryNodes(<<2, 1>>))) }

\* no call of a function on its own
NoCall ==
    [ fn |-> "none", n |-> 0, s |-> <<>>, once |-> <<>>, twice |-> <<>>,
      ff |-> Field("", <<>>, NoRef), present |-> FALSE, v |-> EmptyStr ]

InitProgram(mediaDocs, groupDocs) ==
    /\ mediaFile \in mediaDocs
    /\ groupsFile \in groupDocs
    /\ mediaCache = LoadMediaCache(mediaFile)
    /\ categoryGroups = LoadCategoryGroups(mediaFile, groupsFile)
    /\ req = [r \in Clients |-> IdleRequest]
    /\ refresh = IdleRefresh
    /\ startup = "build"
    /\ crashed = FALSE
    /\ observed = NothingObserved
    /\ lastData = NoData

InitWith(mediaDocs, groupDocs) == InitProgram(mediaDocs, groupDocs) /\ fcall = NoCall

Init == InitWith(InitMediaDocs, InitGroupDocs)

(***************************************************************************)
(* /proxy/directory                                                        *)
(***************************************************************************)
\* the for loop over nodes from position i, up to its next await or its end
RECURSIVE RunLoop(_, _, _, _)
RunLoop(nodes, i, listings, cache) ==
    IF i > Len(nodes)
    THEN [k |-> "end", i |-> i, listings |-> listings, arg |-> EmptyStr, ret |-> NoReturn]
    ELSE LET n == ListingCatalogue[nodes[i]]
             f == FieldBag(n)
         IN  IF NeedsResolve(f)
             THEN LET call == ResolveCall(Get(f, "image"), cache)
                  IN  [ k        |-> IF call.k = "gql" THEN "lookup" ELSE "resume",
                        i        |-> i,
                        listings |-> listings,
                        arg      |-> Get(f, "image"),
                        ret      |-> IF call.k = "gql" THEN NoReturn ELSE call ]
             ELSE RunLoop(nodes, i + 1,
                          Append(listings, MakeListing(n, f, Get(f, "image"))), cache)

\* the handler from position i of the loop to its next await, or through the
\* query pipeline to its response
Continue(rq, nodes, i, listings) ==
    LET out == RunLoop(nodes, i, listings, mediaCache)
        end == Pipeline(out.listings, categoryGroups, rq.query)
    IN  IF out.k = "end"
        THEN [rq EXCEPT !.pc = "done", !.nodes = nodes, !.i = out.i,
                        !.listings = out.listings, !.arg = EmptyStr, !.ret = NoReturn,
                        !.hig = end.hig, !.filtered = end.filtered, !.res = end.res]
        ELSE [rq EXCEPT !.pc = out.k, !.nodes = nodes, !.i = out.i,
                        !.listings = out.listings, !.arg = out.arg, !.ret = out.ret,
                        !.lookups = IF out.k = "lookup" THEN @ + 1 ELSE @]

\* catch (e) { res.status(500).json({ error }) }
Fail(rq) == [rq EXCEPT !.pc = "done", !.res = ErrorResponse]

\* a request arrives: the parameters are read and the first page is asked for
ReqStart(r, query) ==
    /\ ~crashed
    /\ req[r].pc = "idle"
    /\ req' = [req EXCEPT ![r] = [@ EXCEPT !.pc = "page", !.query = query, !.fetches = 1]]
    /\ UNCHANGED <<fcall, mediaCache, categoryGroups, mediaFile, groupsFile, refresh, startup,
                   crashed, observed, lastData>>

\* a loop that leaves one page earlier: guard++ >= 20
BreakLoopEarly(hasNextPage, guard) == ~hasNextPage \/ guard >= GuardLimit

\* if (!pi?.hasNextPage || guard++ > 20) break, guard being the value before
\* the increment
BreakLoop(hasNextPage, guard) == ~hasNextPage \/ guard > GuardLimit

\* a handler that issues a media lookup for a page while it asks for the next
PageOkPipelined(r, pageNodes, hasNextPage) ==
    /\ ~crashed
    /\ req[r].pc = "page"
    /\ LET rq    == req[r]
           nodes == rq.nodes \o pageNodes
           brk   == BreakLoop(hasNextPage, rq.guard)
           guard == IF hasNextPage THEN rq.guard + 1 ELSE rq.guard
       IN  req' = [req EXCEPT ![r] =
                     IF brk
                     THEN Continue([rq EXCEPT !.guard = guard, !.more = hasNextPage],
                                   nodes, 1, <<>>)
                     ELSE [rq EXCEPT !.guard = guard, !.more = hasNextPage,
                                     !.nodes = nodes, !.fetches = @ + 1,
                                     !.lookups = @ + Len(pageNodes)]]
    /\ UNCHANGED <<fcall, mediaCache, categoryGroups, mediaFile, groupsFile, refresh, startup,
                   crashed, observed, lastData>>

\* a page arrives: nodes.push(...); if (!pi?.hasNextPage || guard++ > 20) break;
\* after the break the loop over nodes runs to its first await
PageOk(r, pageNodes, hasNextPage) ==
    /\ ~crashed
    /\ req[r].pc = "page"
    /\ LET rq    == req[r]
           nodes == rq.nodes \o pageNodes
           brk   == BreakLoop(hasNextPage, rq.guard)
           guard == IF hasNextPage THEN rq.guard + 1 ELSE rq.guard
       IN  req' = [req EXCEPT ![r] =
                     IF brk
                     THEN Continue([rq EXCEPT !.guard = guard, !.more = hasNextPage],
                                   nodes, 1, <<>>)
                     ELSE [rq EXCEPT !.guard = guard, !.more = hasNextPage,
                                     !.nodes = nodes, !.fetches = @ + 1]]
    /\ UNCHANGED <<fcall, mediaCache, categoryGroups, mediaFile, groupsFile, refresh, startup,
                   crashed, observed, lastData>>

\* a failing request that leaves an emptied group index behind
PageFailClearing(r) ==
    /\ ~crashed
    /\ req[r].pc = "page"
    /\ req' = [req EXCEPT ![r] = Fail(@)]
    /\ categoryGroups' = <<>>
    /\ UNCHANGED <<fcall, mediaCache, mediaFile, groupsFile, refresh, startup,
                   crashed, observed, lastData>>

\* gql throws on a page: fetch or res.json() rejected, or json.errors
PageFail(r) ==
    /\ ~crashed
    /\ req[r].pc = "page"
    /\ req' = [req EXCEPT ![r] = Fail(@)]
    /\ UNCHANGED <<fcall, mediaCache, categoryGroups, mediaFile, groupsFile, refresh, startup,
                   crashed, observed, lastData>>

\* a resolver that returns the looked-up url as it is, empty or not
LookupResultNoFallback(gid, url) == Str(url)

\* the value resolveMediaUrl returns after its lookup: url || gidOrUrl
LookupResult(gid, url) == IF url # <<>> THEN Str(url) ELSE Str(gid)

\* the media lookup answers inside resolveMediaUrl: a URL is stored and the
\* cache document rewritten; the call then returns
LookupOk(r, url) ==
    /\ ~crashed
    /\ req[r].pc = "lookup"
    /\ LET gid == req[r].arg.s
       IN  /\ mediaCache' = IF url # <<>> THEN CachePut(mediaCache, gid, url) ELSE mediaCache
           /\ mediaFile' = IF url # <<>> THEN OkDoc(mediaCache') ELSE mediaFile
           /\ req' = [req EXCEPT ![r] =
                        [@ EXCEPT !.pc = "resume",
                                  !.ret = [k |-> "ret", v |-> LookupResult(gid, url)],
                                  !.failed = IF url = <<>> THEN @ \cup {req[r].i} ELSE @]]
    /\ UNCHANGED <<fcall, categoryGroups, groupsFile, refresh, startup, crashed, observed,
                   lastData>>

\* gql throws inside resolveMediaUrl: catch (e) { return gidOrUrl }
LookupFail(r) ==
    /\ ~crashed
    /\ req[r].pc = "lookup"
    /\ req' = [req EXCEPT ![r] =
                 [@ EXCEPT !.pc = "resume",
                           !.ret = [k |-> "ret", v |-> Str(req[r].arg.s)],
                           !.failed = @ \cup {req[r].i}]]
    /\ UNCHANGED <<fcall, mediaCache, categoryGroups, mediaFile, groupsFile, refresh, startup,
                   crashed, observed, lastData>>

\* the handler resumes after await resolveMediaUrl(f.image): f.image is set,
\* the listing pushed, and the loop goes on
Resume(r) ==
    /\ ~crashed
    /\ req[r].pc = "resume"
    /\ LET rq == req[r]
           n  == ListingCatalogue[rq.nodes[rq.i]]
       IN  req' = [req EXCEPT ![r] =
                     IF rq.ret.k = "throw"
                     THEN Fail(rq)
                     ELSE Continue(rq, rq.nodes, rq.i + 1,
                                   Append(rq.listings, MakeListing(n, FieldBag(n), rq.ret.v)))]
    /\ UNCHANGED <<fcall, mediaCache, categoryGroups, mediaFile, groupsFile, refresh, startup,
                   crashed, observed, lastData>>

(***************************************************************************)
(* buildCategoryGroups, /proxy/refresh-groups, the startup build and the   *)
(* two synchronous reads                                                   *)
(***************************************************************************)
\* a build that adds to the index it finds
InstallMerged(ids) ==
    /\ categoryGroups' = BuildLoop(CategoryNodes(ids), categoryGroups)
    /\ groupsFile' = OkDoc(categoryGroups')
    /\ lastData' = ids

\* buildCategoryGroups after await gql(query): the map is built, assigned to
\* categoryGroups and written to the group document
Install(ids) ==
    /\ categoryGroups' = BuildGroups(CategoryNodes(ids))
    /\ groupsFile' = OkDoc(categoryGroups')
    /\ lastData' = ids

\* a refresh request arrives: buildCategoryGroups is called and asks upstream
RefreshStart ==
    /\ ~crashed
    /\ refresh.pc = "idle"
    /\ refresh' = [refresh EXCEPT !.pc = "build"]
    /\ UNCHANGED <<fcall, mediaCache, categoryGroups, mediaFile, groupsFile, req, startup,
                   crashed, observed, lastData>>

\* the taxonomy query answers the refresh handler's build
RefreshBuildOk(ids) ==
    /\ ~crashed
    /\ refresh.pc = "build"
    /\ Install(ids)
    /\ refresh' = [refresh EXCEPT !.pc = "built",
                                   !.logged = GroupCount(categoryGroups')]
    /\ UNCHANGED <<fcall, mediaCache, mediaFile, req, startup, crashed, observed>>

\* a failing build that leaves an emptied index behind
RefreshBuildFailCleared ==
    /\ ~crashed
    /\ refresh.pc = "build"
    /\ refresh' = [refresh EXCEPT !.pc = "built", !.threw = TRUE]
    /\ categoryGroups' = <<>>
    /\ UNCHANGED <<fcall, mediaCache, mediaFile, groupsFile, req, startup, crashed, observed,
                   lastData>>

\* gql throws in the refresh handler's build
RefreshBuildFail ==
    /\ ~crashed
    /\ refresh.pc = "build"
    /\ refresh' = [refresh EXCEPT !.pc = "built", !.threw = TRUE]
    /\ UNCHANGED <<fcall, mediaCache, categoryGroups, mediaFile, groupsFile, req, startup,
                   crashed, observed, lastData>>

\* the handler resumes after await buildCategoryGroups(): it answers, and on
\* success starts the invalidation request without awaiting it
RefreshRespond ==
    /\ ~crashed
    /\ refresh.pc = "built"
    /\ refresh' = IF refresh.threw
                  THEN [refresh EXCEPT !.pc = "done", !.status = 500]
                  ELSE [refresh EXCEPT !.pc = "done", !.status = 200,
                                       !.groups = GroupCount(categoryGroups),
                                       !.inval = "fetch"]
    /\ UNCHANGED <<fcall, mediaCache, categoryGroups, mediaFile, groupsFile, req, startup,
                   crashed, observed, lastData>>

\* an invalidation whose rejection reaches the response
InvalidationFetchedSurfaced(outcome) ==
    /\ ~crashed
    /\ refresh.inval = "fetch"
    /\ refresh' = [refresh EXCEPT !.inval =
                     CASE outcome = "reject" -> "warned"
                       [] outcome = "ok"     -> "textOk"
                       [] OTHER              -> "textNotOk",
                                  !.status = IF outcome = "reject" THEN 500 ELSE @]
    /\ UNCHANGED <<fcall, mediaCache, categoryGroups, mediaFile, groupsFile, req, startup,
                   crashed, observed, lastData>>

\* the invalidation fetch settles: rejected, or a response that is ok or not
InvalidationFetched(outcome) ==
    /\ ~crashed
    /\ refresh.inval = "fetch"
    /\ refresh' = [refresh EXCEPT !.inval =
                     CASE outcome = "reject" -> "warned"
                       [] outcome = "ok"     -> "textOk"
                       [] OTHER              -> "textNotOk"]
    /\ UNCHANGED <<fcall, mediaCache, categoryGroups, mediaFile, groupsFile, req, startup,
                   crashed, observed, lastData>>

\* await r.text() settles: the outcome is logged, a failure warned about
InvalidationRead(readable) ==
    /\ ~crashed
    /\ refresh.inval \in {"textOk", "textNotOk"}
    /\ refresh' = [refresh EXCEPT !.inval =
                     IF readable /\ refresh.inval = "textOk" THEN "logged" ELSE "warned"]
    /\ UNCHANGED <<fcall, mediaCache, categoryGroups, mediaFile, groupsFile, req, startup,
                   crashed, observed, lastData>>

\* the taxonomy query answers the startup build
StartupBuildOk(ids) ==
    /\ ~crashed
    /\ startup = "build"
    /\ Install(ids)
    /\ startup' = "done"
    /\ UNCHANGED <<fcall, mediaCache, mediaFile, req, refresh, crashed, observed>>

\* gql throws in the startup build: nothing catches the rejection of the
\* app.listen callback.  Node 15 and later end the process on an unhandled
\* rejection; earlier versions only warn.
StartupBuildFail(fatal) ==
    /\ ~crashed
    /\ startup = "build"
    /\ startup' = "failed"
    /\ crashed' = fatal
    /\ UNCHANGED <<fcall, mediaCache, categoryGroups, mediaFile, groupsFile, req, refresh, observed,
                   lastData>>

\* GET /proxy/category-groups: res.json(categoryGroups || {})
ReadGroups ==
    /\ ~crashed
    /\ observed' = [op |-> "groups", groups |-> categoryGroups, n |-> 0]
    /\ UNCHANGED <<fcall, mediaCache, categoryGroups, mediaFile, groupsFile, req, refresh,
                   startup, crashed, lastData>>

\* GET /proxy/health: { ok: true, groups: Object.keys(categoryGroups || {}).length }
ReadHealth ==
    /\ ~crashed
    /\ observed' = [op |-> "health", groups |-> <<>>, n |-> GroupCount(categoryGroups)]
    /\ UNCHANGED <<fcall, mediaCache, categoryGroups, mediaFile, groupsFile, req, refresh,
                   startup, crashed, lastData>>

(***************************************************************************)
(* Specifications.  The actions are those of the program; a specification  *)
(* chooses the documents found at startup, what the clients send and what  *)
(* the upstream answers.                                                   *)
(***************************************************************************)
\* what the taxonomy query can answer
CategoryResponses == SeqsUpTo({1, 2}, MaxCategoryNodes)

\* the upstream reports a further page at most MaxMore times per request
FewPages(r, pageNodes, hasNextPage) ==
    /\ Len(req[r].nodes) + Len(pageNodes) <= MaxNodes
    /\ hasNextPage => req[r].guard < MaxMore

GroupQuery == [DefaultQuery EXCEPT !.g = <<"A">>]

\* the steps of the media resolver
MediaSteps(r) ==
    \/ \E url \in LookupUrls : LookupOk(r, url)
    \/ LookupFail(r)
    \/ Resume(r)

\* the steps of the invalidation task
InvalidationSteps ==
    \/ \E outcome \in {"reject", "ok", "notOk"} : InvalidationFetched(outcome)
    \/ \E readable \in BOOLEAN : InvalidationRead(readable)

\* SpecMedia: concurrent listing requests whose records carry the same media
\* reference; the group index stays as loaded
NextMedia ==
    \/ \E r \in Clients : ReqStart(r, DefaultQuery)
    \/ \E r \in Clients, pageNodes \in SeqsUpTo({1, 4}, 1), hasNextPage \in BOOLEAN :
          FewPages(r, pageNodes, hasNextPage) /\ PageOk(r, pageNodes, hasNextPage)
    \/ \E r \in Clients : PageFail(r)
    \/ \E r \in Clients : MediaSteps(r)

SpecMedia == InitWith(InitMediaDocs, {MissingDoc(<<>>)}) /\ [][NextMedia]_vars

\* SpecGroups: one listing request with a group parameter, whose records
\* need no media lookup, the refresh handler, the startup build and the two
\* reads, in any interleaving
NextGroups ==
    \/ ReqStart(1, GroupQuery)
    \/ \E pageNodes \in SeqsUpTo({2, 3}, 1), hasNextPage \in BOOLEAN :
          FewPages(1, pageNodes, hasNextPage) /\ PageOk(1, pageNodes, hasNextPage)
    \/ PageFail(1)
    \/ RefreshStart
    \/ \E ids \in CategoryResponses : RefreshBuildOk(ids)
    \/ RefreshBuildFail
    \/ RefreshRespond
    \/ InvalidationSteps
    \/ \E ids \in CategoryResponses : StartupBuildOk(ids)
    \/ \E fatal \in BOOLEAN : StartupBuildFail(fatal)
    \/ ReadGroups
    \/ ReadHealth

SpecGroups == InitWith({MissingDoc(EmptyCache)}, InitGroupDocs) /\ [][NextGroups]_vars

\* SpecPaging: one listing request without parameters against an upstream
\* that may report a further page every time
NextPaging ==
    \/ ReqStart(1, DefaultQuery)
    \/ \E pageNodes \in SeqsUpTo({1, 2}, 1), hasNextPage \in BOOLEAN :
          /\ Len(req[1].nodes) + Len(pageNodes) <= MaxNodes
          /\ PageOk(1, pageNodes, hasNextPage)
    \/ PageFail(1)
    \/ MediaSteps(1)

SpecPaging == InitWith({MissingDoc(EmptyCache)}, {MissingDoc(<<>>)}) /\ [][NextPaging]_vars

\* the g, category and q parameters of SpecQuery, and its page and perPage
GroupParams ==
    { <<>>, <<"a">>, <<" ","A"," ","&"," ","B">>, <<"c">>, <<"q">> }

CategoryParams == { <<>>, <<"x">>, <<" ","Y">>, <<"z">> }

TextParams == { <<>>, <<"B">> }

FilterQueries ==
    { [DefaultQuery EXCEPT !.g = g, !.category = c, !.q = q] :
        g \in GroupParams, c \in CategoryParams, q \in TextParams }

PagingQueries ==
    { [DefaultQuery EXCEPT !.page = pg, !.perPage = pp] :
        pg \in {<<"1">>, <<"2">>, <<"3">>}, pp \in {<<"1">>, <<"2">>} }

\* the group documents SpecQuery starts from: earlier builds of these
\* taxonomy answers
QueryGroupDocs ==
    { OkDoc(BuildGroups(CategoryNodes(ids))) : ids \in {<<1, 2>>, <<2, 1>>, <<3, 4, 5>>, <<6, 1>>} }

\* SpecQuery: one listing request with every combination of parameters over
\* every short listing answer; the media cache already holds the reference
NextQuery ==
    \/ \E query \in FilterQueries \cup PagingQueries : ReqStart(1, query)
    \/ \E pageNodes \in SeqsUpTo(ListingIds, MaxNodes), hasNextPage \in BOOLEAN :
          FewPages(1, pageNodes, hasNextPage) /\ PageOk(1, pageNodes, hasNextPage)
    \/ PageFail(1)
    \/ Resume(1)

SpecQuery ==
    InitWith({OkDoc(CachePut(EmptyCache, GidA, Url1))}, QueryGroupDocs) /\ [][NextQuery]_vars

\* SpecSort: one listing request without parameters over every listing answer
\* of up to MaxSorted records, in one page
NextSort ==
    \/ ReqStart(1, DefaultQuery)
    \/ \E pageNodes \in SeqsUpTo(ListingIds, MaxSorted) : PageOk(1, pageNodes, FALSE)
    \/ PageFail(1)
    \/ Resume(1)

SpecSort ==
    InitWith({OkDoc(CachePut(EmptyCache, GidA, Url1))}, QueryGroupDocs) /\ [][NextSort]_vars

\* SpecFrame: concurrent listing requests with a group parameter and media
\* lookups, over a group index loaded at startup
NextFrame ==
    \/ \E r \in Clients : ReqStart(r, GroupQuery)
    \/ \E r \in Clients, pageNodes \in SeqsUpTo({1, 4}, 1), hasNextPage \in BOOLEAN :
          FewPages(r, pageNodes, hasNextPage) /\ PageOk(r, pageNodes, hasNextPage)
    \/ \E r \in Clients : PageFail(r)
    \/ \E r \in Clients : MediaSteps(r)

SpecFrame ==
    InitWith({MissingDoc(EmptyCache), OkDoc(CachePut(EmptyCache, GidB, Url2))},
             {OkDoc(BuildGroups(CategoryNodes(<<2, 1>>)))})
    /\ [][NextFrame]_vars

\* SpecLoad: the process starts on every combination of the two documents
\* and serves reads and one listing request whose records need no lookup
NextLoad ==
    \/ ReqStart(1, GroupQuery)
    \/ \E pageNodes \in SeqsUpTo({2, 3}, 1), hasNextPage \in BOOLEAN :
          FewPages(1, pageNodes, hasNextPage) /\ PageOk(1, pageNodes, hasNextPage)
    \/ PageFail(1)
    \/ ReadGroups
    \/ ReadHealth

SpecLoad == Init /\ [][NextLoad]_vars

\* slug(s) is called
SlugOnce ==
    /\ fcall.fn = "slug" /\ fcall.n = 0
    /\ fcall' = [fcall EXCEPT !.n = 1, !.once = slug(fcall.s)]
    /\ UNCHANGED <<mediaCache, categoryGroups, mediaFile, groupsFile, req, refresh, startup,
                   crashed, observed, lastData>>

\* slug is called on the result of the first call
SlugTwice ==
    /\ fcall.fn = "slug" /\ fcall.n = 1
    /\ fcall' = [fcall EXCEPT !.n = 2, !.twice = slug(fcall.once)]
    /\ UNCHANGED <<mediaCache, categoryGroups, mediaFile, groupsFile, req, refresh, startup,
                   crashed, observed, lastData>>

\* letters of both cases, a digit, "&", "/", blank, "-" and other punctuation
SlugAlphabet == {"a", "B", "1", "&", "/", " ", "-", "!"}

\* "A & B/C"
SlugExample == <<"A", " ", "&", " ", "B", "/", "C">>

SlugInputs == SeqsUpTo(SlugAlphabet, MaxSlugLen) \cup {SlugExample}

\* SpecSlug: slug applied to every short string, and again to its result
NextSlug == SlugOnce \/ SlugTwice

InitSlug ==
    /\ InitProgram({MissingDoc(EmptyCache)}, {MissingDoc(<<>>)})
    /\ fcall \in {[NoCall EXCEPT !.fn = "slug", !.s = s] : s \in SlugInputs}

SpecSlug == InitSlug /\ [][NextSlug]_vars

\* extractFieldValue(ff) is called; if (!ff) return "" is the call on a field
\* that is not there
ExtractCall ==
    /\ fcall.fn = "extract" /\ fcall.n = 0
    /\ fcall' = [fcall EXCEPT !.n = 1,
                              !.v = IF fcall.present THEN extractFieldValue(fcall.ff)
                                    ELSE EmptyStr]
    /\ UNCHANGED <<mediaCache, categoryGroups, mediaFile, groupsFile, req, refresh, startup,
                   crashed, observed, lastData>>

\* the fields a referenced record can carry: a scalar, a reference with a
\* handle, an empty field
InnerFields ==
    { Field("text", <<"t">>, NoRef),
      Field("k", <<>>, MetaRef("category", <<"h">>, <<>>)),
      Field("k", <<>>, NoRef) }

\* the references a field can carry: none, or any combination of an image
\* URL, a type ("metaobject", or the name of the record's definition), a
\* handle and fields
ExtractRefs ==
    {NoRef} \cup
    { [present |-> TRUE, url |-> u, type |-> t, handle |-> h, fields |-> fs] :
        u \in {<<>>, Url1}, t \in {"metaobject", "category"}, h \in {<<>>, <<"x">>},
        fs \in SeqsUpTo(InnerFields, MaxInnerFields) }

ExtractInputs ==
    { Field("f", v, ref) : v \in {<<>>, <<"v">>}, ref \in ExtractRefs }

InitExtract ==
    /\ InitProgram({MissingDoc(EmptyCache)}, {MissingDoc(<<>>)})
    /\ fcall \in {[NoCall EXCEPT !.fn = "extract", !.present = TRUE, !.ff = ff] :
                    ff \in ExtractInputs}
                \cup {[NoCall EXCEPT !.fn = "extract"]}

\* SpecExtract: extractFieldValue applied to every field of ExtractInputs and
\* to an absent field
NextExtract == ExtractCall

SpecExtract == InitExtract /\ [][NextExtract]_vars

\* Spec: the whole program
Next ==
    \/ \E r \in Clients, query \in {DefaultQuery, GroupQuery} : ReqStart(r, query)
    \/ \E r \in Clients, pageNodes \in SeqsUpTo(ListingIds, 1), hasNextPage \in BOOLEAN :
          FewPages(r, pageNodes, hasNextPage) /\ PageOk(r, pageNodes, hasNextPage)
    \/ \E r \in Clients : PageFail(r)
    \/ \E r \in Clients : MediaSteps(r)
    \/ RefreshStart
    \/ \E ids \in CategoryResponses : RefreshBuildOk(ids)
    \/ RefreshBuildFail
    \/ RefreshRespond
    \/ InvalidationSteps
    \/ \E ids \in CategoryResponses : StartupBuildOk(ids)
    \/ \E fatal \in BOOLEAN : StartupBuildFail(fatal)
    \/ ReadGroups
    \/ ReadHealth

Spec == Init /\ [][Next]_vars

(***************************************************************************)
(* Properties                                                              *)
(***************************************************************************)
\* request r has been answered
Done(r) == req[r].pc = "done"

\* request r left the pagination loop although the last page reported a
\* further one: the guard ended the loop
Truncated(r) == req[r].i >= 1 /\ req[r].more

\* C1 as stated: listing aggregation against an upstream that reports a
\* further page on every page stops after exactly 21 page fetches, and the
\* request goes on with the records accumulated so far
C1_StopsAfter21 ==
    \A r \in Clients : Truncated(r) => req[r].fetches = 21

\* C1 amended: against an upstream that reports a further page on every page
\* the aggregation stops after exactly 22 page fetches (GuardLimit + 2), no
\* request ever fetches more, and the request then answers normally with
\* every record accumulated so far
C1_StopsAfter22 ==
    \A r \in Clients :
        /\ req[r].fetches <= GuardLimit + 2
        /\ Truncated(r) => req[r].fetches = GuardLimit + 2
        /\ Truncated(r) /\ Done(r) =>
              /\ req[r].res.status = 200
              /\ Len(req[r].listings) = Len(req[r].nodes)
              /\ req[r].res.total = Len(req[r].nodes)

\* C1 witness: a truncated request has answered with the records it had
C1_Witness ==
    \E r \in Clients :
        /\ Truncated(r) /\ Done(r)
        /\ req[r].fetches = GuardLimit + 2
        /\ req[r].res.status = 200
        /\ req[r].res.total = MaxNodes

Range(seq) == {seq[i] : i \in 1..Len(seq)}

\* the g, category and q parameters as the handler reads them
GParam(r) == Trim(req[r].query.g)

CatHdl(r) == Trim(req[r].query.category)

QText(r) == ToLowerCase(Trim(req[r].query.q))

Answered(r) == Done(r) /\ req[r].res.status = 200

\* C6 as stated: whenever the index holds a key whose normalized form equals
\* the normalized group parameter, that key is the one selected, whatever the
\* iteration order; and a key whose normalized form is a prefix of the
\* parameter (rule 2) is preferred to one matching only by rule 3
C6_RulePriority ==
    \A r \in Clients :
        Answered(r) /\ GParam(r) # <<>> =>
            LET gslug == slug(GParam(r))
                keys  == Range(ObjectKeys(categoryGroups))
                exact == {k \in keys : slug(k) = gslug}
                rule2 == {k \in keys : StartsWith(gslug, slug(k))}
            IN  /\ exact # {} => req[r].hig.set /\ req[r].hig.key \in exact
                /\ exact = {} /\ rule2 # {} => req[r].hig.set /\ req[r].hig.key \in rule2

\* the normalized handles of the members of the group request r resolved
GroupHandleSet(r) ==
    {slug(m.handle) : m \in Range(Members(categoryGroups, req[r].hig.key))}

\* listing x passes the group filter, the category filter and, when a text
\* is given, the text filter of request r
InBoth(r, x) ==
    /\ slug(x.category) \in GroupHandleSet(r)
    /\ slug(x.category) = slug(CatHdl(r))
    /\ QText(r) # <<>> => MatchesText(x, QText(r))

\* C9: with a group parameter that resolves to a handle set and a category
\* parameter, the listings returned are exactly those whose normalized
\* category is in the group's handle set and equals the normalized category
\* parameter; a category outside the group yields none
C9_Intersection ==
    \A r \in Clients :
        Answered(r) /\ req[r].hig.set /\ CatHdl(r) # <<>> =>
            /\ \A k \in 1..Len(req[r].filtered) :
                  /\ InBoth(r, req[r].filtered[k])
                  /\ req[r].filtered[k] \in Range(req[r].listings)
            /\ Len(req[r].filtered) =
                  Cardinality({j \in 1..Len(req[r].listings) : InBoth(r, req[r].listings[j])})
            /\ req[r].res.total = Len(req[r].filtered)
            /\ slug(CatHdl(r)) \notin GroupHandleSet(r) => req[r].filtered = <<>>

\* C9 witness: group "a & b" and category "x" keep the two listings of
\* category x and drop a listing of another category
C9_Witness ==
    \E r \in Clients :
        /\ Answered(r) /\ req[r].hig.set /\ CatHdl(r) = <<"x">>
        /\ req[r].nodes = <<3, 2>>
        /\ Len(req[r].filtered) = 1
        /\ req[r].filtered[1].category = <<"x">>

\* C10: total is the filtered count, totalPages the least n >= 1 with
\* n * perPage >= total, items the sorted filtered list from index
\* (page - 1) * perPage on, at most perPage long; a page beyond totalPages
\* gives no items and a normal response; 25 items by 12 make 3 pages, the
\* third of 1 item, the fourth of none
C10_Pagination ==
    /\ \A r \in Clients :
          Answered(r) =>
              LET res     == req[r].res
                  total   == Len(req[r].filtered)
                  first   == (res.page - 1) * res.perPage
              IN  /\ res.page >= 1 /\ res.perPage >= 1
                  /\ IF req[r].query.page = <<>> THEN res.page = 1
                     ELSE NumeralOf(res.page) = req[r].query.page
                  /\ IF req[r].query.perPage = <<>> THEN res.perPage = 12
                     ELSE NumeralOf(res.perPage) = req[r].query.perPage
                  /\ res.total = total
                  /\ res.totalPages >= 1
                  /\ res.totalPages * res.perPage >= total
                  /\ res.totalPages > 1 => (res.totalPages - 1) * res.perPage < total
                  /\ Len(res.items) = Max(0, Min(res.perPage, total - first))
                  /\ \A j \in 1..Len(res.items) : res.items[j] = req[r].filtered[first + j]
                  /\ res.page > res.totalPages => res.items = <<>>
    /\ LET all == [i \in 1..25 |-> i]
       IN  /\ TotalPages(25, 12) = 3
           /\ Len(Slice(all, SliceStart(3, 12), SliceStart(3, 12) + 12)) = 1
           /\ Len(Slice(all, SliceStart(4, 12), SliceStart(4, 12) + 12)) = 0

\* C10 witness: two listings by pages of one, and page 3 asked for
C10_Witness ==
    \E r \in Clients :
        /\ Answered(r)
        /\ req[r].res.total = 2 /\ req[r].res.perPage = 1 /\ req[r].res.totalPages = 2
        /\ req[r].res.page = 3 /\ req[r].res.items = <<>>

\* C2 as stated: an entry of the media cache that holds a non-empty URL is
\* never overwritten or removed by any step
C2_MappingImmutable ==
    [][\A k \in DOMAIN mediaCache :
          mediaCache[k] # <<>> =>
              k \in DOMAIN mediaCache' /\ mediaCache'[k] = mediaCache[k]]_vars

\* the value f.image of the record at position j of request r
OriginalImage(r, j) == Get(FieldBag(ListingCatalogue[req[r].nodes[j]]), "image")

\* request r calls resolveMediaUrl in this step and the call returns without
\* an await
CallReturns(r) ==
    /\ req[r].pc = "page" \/ (req[r].pc = "resume" /\ req'[r].i > req[r].i)
    /\ req'[r].pc = "resume"

\* request r calls resolveMediaUrl in this step and the call issues a lookup
CallLooksUp(r) ==
    /\ req[r].pc = "page" \/ (req[r].pc = "resume" /\ req'[r].i > req[r].i)
    /\ req'[r].pc = "lookup"

\* C4: a lookup that returns a non-empty URL stores it under the reference;
\* a later call for a reference the cache holds issues no lookup and returns
\* the stored URL; so a request whose lookups all succeeded has issued at
\* most one lookup for its one reference
C4_Memoized ==
    /\ [](\A r \in Clients : req[r].lookups <= Cardinality(req[r].failed) + 1)
    /\ [][\A r \in Clients :
            /\ req[r].pc = "lookup" /\ req'[r].pc = "resume"
                 /\ req'[r].failed = req[r].failed =>
                  /\ CacheGet(mediaCache', req[r].arg.s) # <<>>
                  /\ req'[r].ret = [k |-> "ret", v |-> Str(CacheGet(mediaCache', req[r].arg.s))]
            /\ CallReturns(r) /\ StartsWith(JsString(req'[r].arg), GidPrefix)
                 /\ CacheGet(mediaCache, req'[r].arg.s) # <<>> =>
                  /\ req'[r].lookups = req[r].lookups
                  /\ req'[r].ret = [k |-> "ret", v |-> Str(CacheGet(mediaCache, req'[r].arg.s))]
            /\ CallLooksUp(r) =>
                  /\ req'[r].lookups = req[r].lookups + 1
                  /\ CacheGet(mediaCache, req'[r].arg.s) = <<>>]_vars

\* C4 witness: a request started on an empty cache has resolved the reference
\* of its first record by one lookup, and the call for the same reference on
\* its second record has returned the stored URL without a lookup
C4_Witness ==
    \E r \in Clients :
        /\ mediaFile = OkDoc(CachePut(EmptyCache, GidA, Url2))
        /\ req[r].nodes = <<1, 4>>
        /\ req[r].pc = "resume" /\ req[r].i = 2
        /\ req[r].lookups = 1 /\ req[r].failed = {}
        /\ req[r].ret = [k |-> "ret", v |-> Str(Url2)]

\* C5: a call whose lookup failed or gave no URL returns the original
\* reference, the listing built from it carries that reference as its image,
\* and the request is answered normally
C5_FallsBack ==
    \A r \in Clients :
        \A j \in req[r].failed :
            /\ StartsWith(JsString(OriginalImage(r, j)), GidPrefix)
            /\ req[r].pc = "resume" /\ req[r].i = j =>
                  req[r].ret = [k |-> "ret", v |-> OriginalImage(r, j)]
            /\ Len(req[r].listings) >= j =>
                  /\ req[r].listings[j].image = OriginalImage(r, j)
                  /\ req[r].listings[j].image # EmptyStr
            /\ Done(r) /\ req[r].ret.k # "throw" =>
                  /\ req[r].res.status = 200
                  /\ Len(req[r].listings) = Len(req[r].nodes)

\* C5 witness: a request answered normally after one lookup threw and another
\* gave no URL, both listings carrying the reference
C5_Witness ==
    \E r \in Clients :
        /\ Answered(r)
        /\ req[r].failed = {1, 2}
        /\ req[r].res.total = 2
        /\ \A j \in {1, 2} : req[r].listings[j].image = Str(GidA)

\* the group label of a taxonomy record
LabelOf(n) == GroupOf(CategoryFields(n.fields, <<>>))

\* the records of a taxonomy answer that carry label k, in the answer's order
Labelled(nodes, k) ==
    LET Has(n) == LabelOf(n) = k IN SelectSeq(nodes, Has)

\* groups is the whole index of the taxonomy answer nodes: one entry per
\* label of the answer, each holding every record of that label, in order
Complete(groups, nodes) ==
    /\ \A i, j \in 1..Len(groups) : groups[i].key = groups[j].key => i = j
    /\ {groups[i].key : i \in 1..Len(groups)} = {LabelOf(nodes[i]) : i \in 1..Len(nodes)}
    /\ \A i \in 1..Len(groups) :
          LET mine == Labelled(nodes, groups[i].key)
          IN  /\ Len(groups[i].val) = Len(mine)
              /\ \A k \in 1..Len(mine) : groups[i].val[k].handle = mine[k].handle

\* groups is the whole index of some taxonomy answer
IsSnapshot(groups) == \E ids \in CategoryResponses : Complete(groups, CategoryNodes(ids))

\* C3: the index is at every moment the whole index of one taxonomy answer
\* (the one of the last build that completed, or the one loaded); what the
\* category-groups read and the health read return is the index of that
\* moment; the key a listing query resolves and the handles it reads for the
\* key come from that same index
C3_WholeSnapshots ==
    /\ [](/\ IsSnapshot(categoryGroups)
          /\ lastData # NoData => Complete(categoryGroups, CategoryNodes(lastData))
          /\ observed.op = "groups" => IsSnapshot(observed.groups)
          /\ observed.op = "health" =>
                \E ids \in CategoryResponses :
                    observed.n = Cardinality({LabelOf(n) : n \in Range(CategoryNodes(ids))})
          /\ \A r \in Clients :
                Answered(r) /\ req[r].hig.set =>
                    \E ids \in CategoryResponses :
                        LET mine == Labelled(CategoryNodes(ids), req[r].hig.key)
                        IN  /\ mine # <<>>
                            /\ req[r].hig.handles = [k \in 1..Len(mine) |-> slug(mine[k].handle)])
    /\ [][/\ observed' # observed /\ observed'.op = "groups" =>
                observed'.groups = categoryGroups /\ categoryGroups' = categoryGroups
          /\ observed' # observed /\ observed'.op = "health" =>
                observed'.n = Len(categoryGroups) /\ categoryGroups' = categoryGroups
          /\ \A r \in Clients :
                ~Done(r) /\ req'[r].pc = "done" /\ req'[r].hig.set =>
                    /\ categoryGroups' = categoryGroups
                    /\ HasKey(categoryGroups, req'[r].hig.key)
                    /\ LET ms == Members(categoryGroups, req'[r].hig.key)
                       IN  req'[r].hig.handles = [k \in 1..Len(ms) |-> slug(ms[k].handle)]]_vars

\* C3 witness: while a rebuild waits for its taxonomy answer, a listing query
\* has resolved its group against the index an earlier build installed, and
\* the category-groups read before that build returned the index loaded at
\* startup
C3_Witness ==
    /\ refresh.pc = "build"
    /\ lastData = <<1, 2>>
    /\ Answered(1) /\ req[1].hig.set /\ req[1].hig.key = <<"a", " ", "&", " ", "b">>
    /\ observed.op = "groups"
    /\ Complete(observed.groups, CategoryNodes(<<2, 1>>))
    /\ observed.groups # categoryGroups

\* C7: the step in which a rebuild's taxonomy query fails changes neither the
\* index nor the group document, the refresh handler then answers 500 and
\* starts no invalidation; a listing query whose page query fails answers
\* 500 with no items, and changes no shared state
C7_NothingPartial ==
    /\ [](/\ refresh.pc = "done" /\ refresh.threw =>
                refresh.status = 500 /\ refresh.inval = "none"
          /\ \A r \in Clients :
                Done(r) /\ req[r].res.status # 200 =>
                    req[r].res = ErrorResponse /\ req[r].res.items = <<>>)
    /\ [][/\ refresh.pc = "build" /\ refresh'.pc = "built" /\ refresh'.threw =>
                UNCHANGED <<categoryGroups, groupsFile, mediaCache, mediaFile, lastData>>
          /\ refresh.pc = "built" /\ refresh.threw /\ refresh'.pc = "done" =>
                /\ refresh'.status = 500
                /\ UNCHANGED <<categoryGroups, groupsFile, mediaCache, mediaFile, lastData>>
          /\ \A r \in Clients :
                req[r].pc = "page" /\ req'[r].pc = "done" /\ req'[r].i = 0 =>
                    /\ req'[r].res = ErrorResponse
                    /\ UNCHANGED <<categoryGroups, groupsFile, mediaCache, mediaFile>>]_vars

\* C7 witness: over an index installed by the startup build, a rebuild has
\* failed and been answered 500, and a listing query has failed on its
\* second page; the index and its document are those of the startup build
C7_Witness ==
    /\ refresh.pc = "done" /\ refresh.threw /\ refresh.status = 500
    /\ Done(1) /\ req[1].res = ErrorResponse /\ req[1].fetches = 2
    /\ lastData = <<1, 2>>
    /\ Complete(categoryGroups, CategoryNodes(<<1, 2>>))
    /\ groupsFile = OkDoc(categoryGroups)

\* C8: the invalidation call is only ever in progress after the refresh
\* handler has answered 200; it starts in the step that sends the response,
\* and none of its steps, whatever its outcome, changes the response, the
\* index or the group document
C8_FireAndForget ==
    /\ [](refresh.inval # "none" => refresh.pc = "done" /\ refresh.status = 200)
    /\ [][/\ refresh.pc = "built" /\ refresh'.pc = "done" /\ refresh'.status = 200 =>
                refresh'.inval = "fetch"
          /\ refresh.inval # "none" /\ refresh'.inval # refresh.inval =>
                /\ refresh'.status = refresh.status
                /\ refresh'.groups = refresh.groups
                /\ refresh'.pc = refresh.pc
                /\ UNCHANGED <<categoryGroups, groupsFile, req>>]_vars

\* C8 witness: the refresh was answered 200 and the invalidation call was
\* then rejected
C8_Witness ==
    /\ refresh.pc = "done" /\ refresh.status = 200 /\ refresh.groups = 2
    /\ refresh.inval = "warned"

\* let filtered of request r as it is before filtered.sort
Unsorted(r) ==
    TextFilter(CategoryFilter(GroupFilter(req[r].listings, req[r].hig), CatHdl(r)), QText(r))

\* a.name || ""
NameOf(x) == JsString(OrElse(x.name, EmptyStr))

\* two listings the comparator cannot tell apart
SameKey(x, y) == x.featured = y.featured /\ LocaleCompare(NameOf(x), NameOf(y)) = 0

\* the listings of seq that have the key of x, in the order of seq
KeyClass(seq, x) == LET Same(y) == SameKey(x, y) IN SelectSeq(seq, Same)

Occurrences(seq, x) == Cardinality({i \in 1..Len(seq) : seq[i] = x})

\* C11: the sorted list holds the filtered listings, each as often as before;
\* no listing that is not featured precedes a featured one; listings of the
\* same featured status are in ascending name order; listings of equal
\* featured status and name keep the order they were aggregated in
C11_SortedStable ==
    \A r \in Clients :
        Answered(r) =>
            LET in  == Unsorted(r)
                out == req[r].filtered
            IN  /\ Len(out) = Len(in)
                /\ \A x \in Range(in) \cup Range(out) : Occurrences(out, x) = Occurrences(in, x)
                /\ \A i, j \in 1..Len(out) :
                      i < j =>
                          /\ ~(~out[i].featured /\ out[j].featured)
                          /\ out[i].featured = out[j].featured =>
                                LocaleCompare(NameOf(out[i]), NameOf(out[j])) <= 0
                /\ \A x \in Range(in) : KeyClass(out, x) = KeyClass(in, x)

\* C11 witness: of three records, the featured one, aggregated last, comes
\* first, and the two of equal name and status follow in aggregation order
C11_Witness ==
    /\ Answered(1)
    /\ req[1].nodes = <<3, 4, 1>>
    /\ [i \in 1..3 |-> req[1].filtered[i].id] = <<1, 3, 4>>
    /\ SameKey(req[1].filtered[2], req[1].filtered[3])

\* C12 as stated: the category of every listing built from an upstream
\* record is the normalized form of its category_handle field, else of its
\* category field, else empty, and the category of every item of a response
\* is a fixed point of the normalizer
C12_CategoryNormalized ==
    \A r \in Clients :
        /\ \A j \in 1..Len(req[r].listings) :
              LET f == FieldBag(ListingCatalogue[req[r].nodes[j]])
              IN  req[r].listings[j].category =
                      slug(JsString(OrElse(Get(f, "category_handle"),
                                           OrElse(Get(f, "category"), EmptyStr))))
        /\ \A k \in 1..Len(req[r].res.items) :
              slug(req[r].res.items[k].category) = req[r].res.items[k].category

\* C13 as stated: no failure of an upstream call ends the process, the
\* failure of the startup build included, after which the index is the one
\* loaded at startup and requests are still served
C13_NeverCrashes ==
    /\ ~crashed
    /\ startup = "failed" /\ lastData = NoData =>
          categoryGroups = LoadCategoryGroups(MissingDoc(EmptyCache), groupsFile)

\* f.name || n.handle of a taxonomy record
MemberName(n) ==
    LET f == CategoryFields(n.fields, <<>>) IN OrElse(Get(f, "name"), Str(n.handle)).s

\* the value of the field of record n named key, "" when it has none
RawField(n, key) ==
    LET at == {i \in 1..Len(n.fields) : n.fields[i].key = key}
    IN  IF at = {} THEN <<>>
        ELSE n.fields[CHOOSE i \in at : \A j \in at : j <= i].value

\* the bucket of a record: its group field, else its category_group field,
\* else "Others", without surrounding blanks
StatedLabel(n) ==
    Trim(IF RawField(n, "group") # <<>> THEN RawField(n, "group")
         ELSE IF RawField(n, "category_group") # <<>> THEN RawField(n, "category_group")
         ELSE OthersLabel)

\* groups is exactly the mapping derived from the taxonomy answer nodes: one
\* bucket per label, holding {name, handle} of each record of that label
\* once, in the order of the answer, and nothing else
Derived(groups, nodes) ==
    /\ Complete(groups, nodes)
    /\ \A i \in 1..Len(groups) :
          LET mine == Labelled(nodes, groups[i].key)
          IN  groups[i].val =
                  [k \in 1..Len(mine) |-> [name |-> MemberName(mine[k]), handle |-> mine[k].handle]]
    /\ \A i \in 1..Len(nodes) : LabelOf(nodes[i]) = StatedLabel(nodes[i])

\* the builds of answers that hold a record with a category_group field
\* only, one without either field and two of one group
DerivedFromCatalogue ==
    \A ids \in {<<3, 4, 5>>, <<5, 3, 1>>} :
        Derived(BuildGroups(CategoryNodes(ids)), CategoryNodes(ids))

\* a build completes in this step
BuildCompletes ==
    \/ refresh.pc = "build" /\ refresh'.pc = "built" /\ ~refresh'.threw
    \/ startup = "build" /\ startup' = "done"

\* C14: when a build completes, the index and the group document are exactly
\* the mapping derived from that build's taxonomy answer, whatever the index
\* held before; a build on the data of the last build leaves the index as it
\* is; between builds the index and the document do not change
C14_WholesaleIdempotent ==
    /\ [](/\ lastData # NoData =>
                /\ Derived(categoryGroups, CategoryNodes(lastData))
                /\ groupsFile = OkDoc(categoryGroups)
          /\ DerivedFromCatalogue)
    /\ [][/\ BuildCompletes =>
                /\ Derived(categoryGroups', CategoryNodes(lastData'))
                /\ groupsFile' = OkDoc(categoryGroups')
                /\ lastData' = lastData => categoryGroups' = categoryGroups
          /\ ~BuildCompletes => UNCHANGED <<categoryGroups, groupsFile, lastData>>]_vars

\* C14 witness: a rebuild on an answer of one record has replaced an index of
\* two groups, which a read had returned before, by an index of one group
C14_Witness ==
    /\ refresh.pc = "built" /\ ~refresh.threw
    /\ lastData = <<1>>
    /\ GroupCount(categoryGroups) = 1
    /\ groupsFile = OkDoc(categoryGroups)
    /\ observed.op = "groups" /\ GroupCount(observed.groups) = 2

\* C15 as stated: the group count in a rebuild's success response is the
\* number of keys of the index that same rebuild built, whatever other build
\* overlaps with it
C15_CountOfOwnBuild ==
    refresh.pc = "done" /\ refresh.status = 200 => refresh.groups = refresh.logged

\* s holds only characters of [a-z0-9-], no "-" at either end and no two
\* "-" in a row
WellFormedSlug(s) ==
    /\ \A i \in 1..Len(s) : s[i] \in LowerAlnum \cup {"-"}
    /\ s # <<>> => s[1] # "-" /\ s[Len(s)] # "-"
    /\ \A i \in 1..(Len(s) - 1) : ~(s[i] = "-" /\ s[i + 1] = "-")

\* C16: slug gives a result for every string; the result is well formed; slug
\* of the result is the result; the empty string gives the empty string;
\* slug("A & B/C") is "a-b-c"
C16_SlugIdempotent ==
    /\ fcall.fn = "slug" /\ fcall.n >= 1 =>
          /\ WellFormedSlug(fcall.once)
          /\ fcall.s = <<>> => fcall.once = <<>>
          /\ fcall.s = SlugExample => fcall.once = <<"a", "-", "b", "-", "c">>
    /\ fcall.fn = "slug" /\ fcall.n = 2 => fcall.twice = fcall.once

\* C16 witness: slug applied twice to a string of blank, punctuation and an
\* upper-case letter
C16_Witness ==
    /\ fcall.fn = "slug" /\ fcall.n = 2
    /\ fcall.s = <<"&", "B", "!">>
    /\ fcall.once = <<"b">> /\ fcall.twice = <<"b">>

\* the keys of the index whose normalized form equals the normalized group
\* parameter of request r, or is a prefix of it, or has it as a prefix
MatchingKeys(r) ==
    {k \in Range(ObjectKeys(categoryGroups)) :
        \/ slug(k) = slug(GParam(r))
        \/ StartsWith(slug(k), slug(GParam(r)))
        \/ StartsWith(slug(GParam(r)), slug(k))}

\* C17 as stated: with a group parameter, a group is selected whenever some
\* key matches by one of the three rules, and it yields the normalized
\* handles of its members; when no key matches, no group is selected and the
\* response is that of the same query without the group parameter
C17_SelectsOnMatch ==
    \A r \in Clients :
        Answered(r) /\ GParam(r) # <<>> =>
            /\ MatchingKeys(r) # {} =>
                  /\ req[r].hig.set
                  /\ req[r].hig.key \in MatchingKeys(r)
                  /\ LET ms == Members(categoryGroups, req[r].hig.key)
                     IN  req[r].hig.handles = [k \in 1..Len(ms) |-> slug(ms[k].handle)]
            /\ MatchingKeys(r) = {} =>
                  /\ ~req[r].hig.set
                  /\ req[r].res =
                        Pipeline(req[r].listings, categoryGroups,
                                 [req[r].query EXCEPT !.g = <<>>]).res

\* C18 as stated: whatever the two documents are at startup, the process
\* is not ended; a valid document is loaded, whatever the other one is; the
\* state backed by a missing or unreadable document starts empty
C18_EachDocumentLoaded ==
    /\ ~crashed
    /\ mediaCache = IF mediaFile.st = "ok" THEN mediaFile.v ELSE EmptyCache
    /\ lastData = NoData =>
          categoryGroups = IF groupsFile.st = "ok" THEN groupsFile.v ELSE <<>>

\* the lookup of request r is answered in this step
LookupAnswered(r) == req[r].pc = "lookup" /\ req'[r].pc = "resume"

\* C19: no step removes a key of the media cache; every value it holds is a
\* non-empty URL; a lookup that fails or gives no URL changes neither the
\* cache nor its document; a lookup that gives a URL stores it, and the
\* document then equals the cache; nothing else changes the cache
C19_GrowsAndPersists ==
    /\ [](\A k \in DOMAIN mediaCache : mediaCache[k] \in LookupUrls \ {<<>>})
    /\ [][/\ DOMAIN mediaCache \subseteq DOMAIN mediaCache'
          /\ mediaCache' # mediaCache => mediaFile' = OkDoc(mediaCache')
          /\ \A r \in Clients :
                LookupAnswered(r) =>
                    IF req'[r].failed # req[r].failed
                    THEN UNCHANGED <<mediaCache, mediaFile>>
                    ELSE /\ req[r].arg.s \in DOMAIN mediaCache'
                         /\ \A k \in DOMAIN mediaCache \ {req[r].arg.s} :
                               mediaCache'[k] = mediaCache[k]
                         /\ mediaFile' = OkDoc(mediaCache')
          /\ (\A r \in Clients : ~LookupAnswered(r)) =>
                UNCHANGED <<mediaCache, mediaFile>>]_vars

\* C19 witness: on a cache loaded with another reference, a request's first
\* lookup gave no URL and its second gave one: the cache holds both
\* references and the document equals it
C19_Witness ==
    \E r \in Clients :
        /\ req[r].pc = "resume" /\ req[r].i = 2 /\ req[r].failed = {1}
        /\ DOMAIN mediaCache = {GidA, GidB}
        /\ mediaCache[GidB] = Url2
        /\ mediaFile = OkDoc(mediaCache)

\* v is the nested mapping of fields: it holds the flattened value of each
\* field under the field's key, a later field of a key replacing an earlier
IsNestedMapping(v, fields) ==
    /\ v.t = "obj"
    /\ \A i \in 1..Len(fields) :
          LET last == CHOOSE j \in 1..Len(fields) :
                         /\ fields[j].key = fields[i].key
                         /\ \A k \in 1..Len(fields) : fields[k].key = fields[i].key => k <= j
          IN  Get(v.o, fields[i].key) = extractFieldValue(fields[last])

\* C20 as stated: a field's value is its scalar value when it has one; else
\* the image URL of the media asset it refers to; else, when it refers to a
\* record with fields, the nested mapping of those fields; else the handle of
\* the reference; else the empty string; an absent field gives the empty
\* string
C20_Precedence ==
    fcall.fn = "extract" /\ fcall.n = 1 =>
        LET ff  == fcall.ff
            ref == ff.reference
        IN  IF ~fcall.present THEN fcall.v = EmptyStr
            ELSE IF ff.value # <<>> THEN fcall.v = Str(ff.value)
            ELSE IF ref.present /\ ref.url # <<>> THEN fcall.v = Str(ref.url)
            ELSE IF ref.present /\ ref.fields # <<>> THEN IsNestedMapping(fcall.v, ref.fields)
            ELSE IF ref.present /\ ref.handle # <<>> THEN fcall.v = Str(ref.handle)
            ELSE fcall.v = EmptyStr

\* request r issues a media lookup in this step
LookupIssued(r) == req'[r].lookups > req[r].lookups

\* C21: while a request still fetches pages it has flattened no record and
\* issued no lookup, and it fetches no page after that; a lookup is issued
\* only when none of the request is outstanding, for the first record not yet
\* flattened, every record before it having its listing; the records are
\* taken in the order of the upstream answer
C21_PagesThenOneByOne ==
    /\ [](\A r \in Clients :
            /\ req[r].pc = "page" =>
                  req[r].lookups = 0 /\ req[r].i = 0 /\ req[r].listings = <<>>
            /\ req[r].pc \in {"lookup", "resume"} =>
                  /\ req[r].i \in 1..Len(req[r].nodes)
                  /\ Len(req[r].listings) = req[r].i - 1
                  /\ req[r].arg = OriginalImage(r, req[r].i)
                  /\ \A j \in 1..Len(req[r].listings) :
                        req[r].listings[j].id = ListingCatalogue[req[r].nodes[j]].id)
    /\ [][\A r \in Clients :
            /\ req'[r].fetches > req[r].fetches => req[r].lookups = 0 /\ req[r].i = 0
            /\ req[r].i >= 1 =>
                  /\ req'[r].fetches = req[r].fetches
                  /\ req'[r].nodes = req[r].nodes
                  /\ req'[r].i >= req[r].i
            /\ LookupIssued(r) =>
                  /\ req'[r].lookups = req[r].lookups + 1
                  /\ req[r].pc # "lookup"
                  /\ req'[r].pc = "lookup"
                  /\ req'[r].i > req[r].i]_vars

\* C21 witness: after two page fetches a request waits for the lookup of its
\* second record, the lookup of its first having been answered and the first
\* listing built
C21_Witness ==
    \E r \in Clients :
        /\ req[r].fetches = 2 /\ req[r].nodes = <<1, 4>>
        /\ req[r].pc = "lookup" /\ req[r].i = 2
        /\ req[r].lookups = 2 /\ req[r].failed = {1}
        /\ Len(req[r].listings) = 1

\* C22: no step of a listing query, whether the query is answered 200 or
\* 500, changes the group index or the group document; the media cache and
\* its document change only when a lookup of the query gives a non-empty URL,
\* and then only in the entry of the reference looked up, which holds that URL
C22_QueryFrame ==
    /\ [](\A r \in Clients : Done(r) => req[r].res.status \in {200, 500})
    /\ [][/\ req' # req =>
                UNCHANGED <<categoryGroups, groupsFile, refresh, startup, crashed, observed,
                            lastData>>
          /\ mediaCache' # mediaCache \/ mediaFile' # mediaFile =>
                \E r \in Clients :
                    /\ req[r].pc = "lookup" /\ req'[r].pc = "resume"
                    /\ req'[r].failed = req[r].failed
                    /\ req'[r].ret.v.s # <<>>
                    /\ DOMAIN mediaCache' = DOMAIN mediaCache \cup {req[r].arg.s}
                    /\ mediaCache'[req[r].arg.s] = req'[r].ret.v.s
                    /\ \A k \in DOMAIN mediaCache \ {req[r].arg.s} :
                          mediaCache'[k] = mediaCache[k]
                    /\ mediaFile' = OkDoc(mediaCache')]_vars

\* C22 witness: one query was answered 200 with a group resolved, another
\* 500; the media cache has gained the reference the first resolved, and the
\* group index and its document are the ones loaded at startup
C22_Witness ==
    /\ Answered(1) /\ req[1].hig.set /\ req[1].lookups = 1
    /\ Done(2) /\ req[2].res = ErrorResponse
    /\ mediaCache = CachePut(CachePut(EmptyCache, GidB, Url2), GidA, Url1)
    /\ mediaFile = OkDoc(mediaCache)
    /\ categoryGroups = BuildGroups(CategoryNodes(<<2, 1>>))
    /\ groupsFile = OkDoc(categoryGroups)

====
